---------------------------- MODULE Spec2Model ----------------------------
(* A model of the GraphQL resolver layer of graphql-hackernews              *)
(* (src/src/schema.ts and its two earlier variants) over a relational store *)
(* of Link and Comment rows.                                                *)
(*                                                                          *)
(* Text is modelled as a sequence of one-character strings, so that the     *)
(* regular expression of parseIntSafe, parseInt and the store's "contains"  *)
(* operator are computed character by character.                            *)
EXTENDS Integers, Sequences, FiniteSets, TLC

VARIABLES
    links,          \* the Link table, in insertion order
    comments,       \* the Comment table, in insertion order
    nextLinkId,     \* the Link table's autoincrement counter
    nextCommentId,  \* the Comment table's autoincrement counter
    calls,          \* per client: its postCommentOnLink call in flight
    resp,           \* the settled request of a single-step resolver, until
                    \* the execution engine has sent its response
    input,          \* parseIntSafe's argument (specification SpecParse)
    output          \* parseIntSafe's result   (specification SpecParse)

vars == <<links, comments, nextLinkId, nextCommentId, calls, resp, input, output>>

store == <<links, comments, nextLinkId, nextCommentId>>

----------------------------------------------------------------------------
(* Bounds of the model.                                                     *)

\* rows the Link table may hold in Spec
MaxLinks == 1
\* rows the Link table may hold in SpecApi
MaxApiLinks == 2
\* rows the Comment table may hold
MaxComments == 2
\* rows the Link table may hold in SpecFeed
MaxFeedLinks == 31
\* the first MaxVaried links of SpecFeed take any url and description
MaxVaried == 2
\* longest argument of parseIntSafe in SpecParse
MaxStrLen == 3

\* the clients whose postCommentOnLink calls interleave
Clients == {"c1", "c2"}

----------------------------------------------------------------------------
(* JavaScript values.                                                       *)

Undefined == [kind |-> "undefined"]
Null == [kind |-> "null"]
NaN == [kind |-> "NaN"]

\* a Number that is an integer: below 10^9 by its value, above by its sign
\* and decimal digits
Num(n) == [kind |-> "number", val |-> n]
BigNum(sign, digits) == [kind |-> "number", sign |-> sign, digits |-> digits]
Some(v) == [kind |-> "some", val |-> v]

\* new GraphQLError(message)
GraphQLError(message) == [kind |-> "GraphQLError", message |-> message]

\* a settled promise
Resolved(v) == [state |-> "fulfilled", value |-> v]
Rejected(e) == [state |-> "rejected", value |-> e]

\* the result of a synchronous function: a value or an exception
Return(v) == [threw |-> FALSE, value |-> v]
Throw(e) == [threw |-> TRUE, value |-> e]

----------------------------------------------------------------------------
(* parseInt and parseIntSafe.                                               *)

Digits == {"0", "1", "2", "3", "4", "5", "6", "7", "8", "9"}

HexLetters == {"a", "b", "c", "d", "e", "f", "A", "B", "C", "D", "E", "F"}

WhiteSpace == {" ", "\t", "\n"}

DigitValue(c) ==
    CASE c = "0" -> 0 [] c = "1" -> 1 [] c = "2" -> 2 [] c = "3" -> 3
      [] c = "4" -> 4 [] c = "5" -> 5 [] c = "6" -> 6 [] c = "7" -> 7
      [] c = "8" -> 8 [] c = "9" -> 9
      [] c \in {"a", "A"} -> 10 [] c \in {"b", "B"} -> 11
      [] c \in {"c", "C"} -> 12 [] c \in {"d", "D"} -> 13
      [] c \in {"e", "E"} -> 14 [] c \in {"f", "F"} -> 15

IsRadixDigit(c, R) == (c \in Digits \/ c \in HexLetters) /\ DigitValue(c) < R

RECURSIVE TrimStart(_)
TrimStart(s) ==
    IF s # <<>> /\ s[1] \in WhiteSpace THEN TrimStart(Tail(s)) ELSE s

\* the longest prefix of s made of digits of radix R
RECURSIVE RadixPrefix(_, _)
RadixPrefix(s, R) ==
    IF s # <<>> /\ IsRadixDigit(s[1], R)
    THEN <<s[1]>> \o RadixPrefix(Tail(s), R)
    ELSE <<>>

\* Integers of any size are sequences of decimal digits, most significant
\* first, without leading zeros.

RECURSIVE StripZeros(_)
StripZeros(ds) ==
    IF ds = <<>> THEN <<"0">>
    ELSE IF ds[1] = "0" /\ Len(ds) > 1 THEN StripZeros(Tail(ds)) ELSE ds

\* ds * m + carry, the digits of ds taken from the last one
RECURSIVE MulAddFrom(_, _, _, _)
MulAddFrom(ds, m, carry, acc) ==
    IF ds = <<>>
    THEN IF carry = 0 THEN acc
         ELSE MulAddFrom(<<>>, m, carry \div 10, <<ToString(carry % 10)>> \o acc)
    ELSE LET cur == DigitValue(ds[Len(ds)]) * m + carry
         IN  MulAddFrom(SubSeq(ds, 1, Len(ds) - 1), m, cur \div 10,
                        <<ToString(cur % 10)>> \o acc)

MulAdd(ds, m, d) == StripZeros(MulAddFrom(ds, m, d, <<>>))

\* the mathematical integer of the digits z in radix R
RECURSIVE MathInt(_, _, _)
MathInt(z, R, acc) ==
    IF z = <<>> THEN acc
    ELSE MathInt(Tail(z), R, MulAdd(acc, R, DigitValue(z[1])))

\* ds divided by 2: quotient q and remainder r
RECURSIVE HalveFrom(_, _, _)
HalveFrom(ds, carry, acc) ==
    IF ds = <<>> THEN [q |-> StripZeros(acc), r |-> carry]
    ELSE LET cur == carry * 10 + DigitValue(ds[1])
         IN  HalveFrom(Tail(ds), cur % 2, Append(acc, ToString(cur \div 2)))

Halve(ds) == HalveFrom(ds, 0, <<>>)

RECURSIVE Doubled(_, _)
Doubled(ds, times) ==
    IF times = 0 THEN ds ELSE Doubled(MulAdd(ds, 2, 0), times - 1)

Less(a, b) ==
    \/ Len(a) < Len(b)
    \/ /\ Len(a) = Len(b)
       /\ \E i \in 1..Len(a) :
              /\ DigitValue(a[i]) < DigitValue(b[i])
              /\ \A j \in 1..(i - 1) : a[j] = b[j]

Odd(ds) == DigitValue(ds[Len(ds)]) % 2 = 1

\* 2^53: a double holds every integer up to it
TwoTo53 ==
    << "9", "0", "0", "7", "1", "9", "9", "2", "5", "4", "7", "4", "0", "9", "9", "2" >>

\* the Number value of an integer: the nearest double, the even one of two
\* that are equally near.  The integer is halved down to 53 bits, rounded on
\* the bits dropped (the last one, guard, and whether any before it was
\* set, sticky) and doubled back.
RECURSIVE RoundTo53Bits(_, _, _, _)
RoundTo53Bits(ds, guard, sticky, shift) ==
    IF Less(ds, TwoTo53)
    THEN Doubled(IF guard = 1 /\ (sticky \/ Odd(ds)) THEN MulAdd(ds, 1, 1) ELSE ds,
                 shift)
    ELSE RoundTo53Bits(Halve(ds).q, Halve(ds).r, sticky \/ guard = 1, shift + 1)

ToDouble(ds) == RoundTo53Bits(ds, 0, FALSE, 0)

RECURSIVE SmallValue(_, _)
SmallValue(ds, acc) ==
    IF ds = <<>> THEN acc ELSE SmallValue(Tail(ds), acc * 10 + DigitValue(ds[1]))

Number(sign, ds) ==
    IF Len(ds) <= 9 THEN Num(sign * SmallValue(ds, 0)) ELSE BigNum(sign, ds)

\* ECMAScript parseInt(string, radix); radix 0 stands for an omitted radix
parseInt(string, radix) ==
    LET t == TrimStart(string)
        sign == IF t # <<>> /\ t[1] = "-" THEN -1 ELSE 1
        u == IF t # <<>> /\ t[1] \in {"+", "-"} THEN Tail(t) ELSE t
        hex == /\ radix \in {0, 16}
               /\ Len(u) >= 2
               /\ u[1] = "0"
               /\ u[2] \in {"x", "X"}
        R == IF hex THEN 16 ELSE IF radix = 0 THEN 10 ELSE radix
        v == IF hex THEN SubSeq(u, 3, Len(u)) ELSE u
        z == RadixPrefix(v, R)
    IN  IF z = <<>> THEN NaN ELSE Number(sign, ToDouble(MathInt(z, R, <<"0">>)))

\* the expression without its end anchor: /^(\d+)/
RegexDigitsPrefix(value) == Len(value) >= 1 /\ value[1] \in Digits

\* /^(\d+)$/.test(value)
RegexDigitsOnly(value) ==
    /\ Len(value) >= 1
    /\ \A i \in 1..Len(value) : value[i] \in Digits

\* parseIntSafe without the expression's guard
parseIntUnguarded(value) ==
    IF parseInt(value, 10) = NaN THEN Null ELSE parseInt(value, 10)

parseIntSafe(value) ==
    IF RegexDigitsOnly(value) THEN parseInt(value, 10) ELSE Null

----------------------------------------------------------------------------
(* applyTakeConstraints.                                                    *)

TakeMin == 1
TakeMax == 50
TakeDefault == 30

TakeMessage(min, max, value) ==
    << "'take' argument value '", ToString(value),
       "' is outside the valid range of '", ToString(min),
       "' to '", ToString(max), "'." >>

\* applyTakeConstraints without the lower bound
applyTakeConstraintsNoMin(min, max, value) ==
    IF value > max
    THEN Throw(GraphQLError(TakeMessage(min, max, value)))
    ELSE Return(value)

applyTakeConstraints(min, max, value) ==
    IF value < min \/ value > max
    THEN Throw(GraphQLError(TakeMessage(min, max, value)))
    ELSE Return(value)

----------------------------------------------------------------------------
(* The store: the data-access client over the Link and Comment tables.      *)

\* the error of a rejected insert whose linkId references no Link row
ForeignKeyViolation == [kind |-> "PrismaClientKnownRequestError", code |-> "P2003"]

\* store errors that are not the foreign-key violation
PoolTimeout == [kind |-> "PrismaClientKnownRequestError", code |-> "P2024"]
Unreachable == [kind |-> "PrismaClientInitializationError", code |-> "P1001"]
InvalidArgument == [kind |-> "PrismaClientValidationError", code |-> "none"]
StoreFaults == {PoolTimeout, Unreachable}

NoFault == [kind |-> "none", code |-> "none"]

\* the store's answer to a call: the fault that hit it, or the call's reply
StoreOutcome(fault, reply) == IF fault = NoFault THEN reply ELSE Throw(fault)

Ids(table) == {table[i].id : i \in 1..Len(table)}

\* link.create: the row gets the next id of the table
LinkCreate(table, next, data) ==
    LET row == [id |-> next, description |-> data.description, url |-> data.url]
    IN  [reply |-> Return(row), table |-> Append(table, row), next |-> next + 1]

\* the referential-integrity constraint of Comment.linkId
ForeignKeyHolds(linkTable, linkId) == linkId \in Ids(linkTable)

\* comment.create of a table without the constraint
CommentCreateUnchecked(linkTable, table, next, data) ==
    LET row == [id |-> next, body |-> data.body, linkId |-> data.linkId]
    IN  [reply |-> Return(row), table |-> Append(table, row), next |-> next + 1]

\* comment.create: rejected when linkId references no Link row
CommentCreate(linkTable, table, next, data) ==
    LET row == [id |-> next, body |-> data.body, linkId |-> data.linkId]
    IN  IF ForeignKeyHolds(linkTable, data.linkId)
        THEN [reply |-> Return(row), table |-> Append(table, row), next |-> next + 1]
        ELSE [reply |-> Throw(ForeignKeyViolation), table |-> table, next |-> next]

\* the "contains" operator: needle is a substring of text
Contains(text, needle) ==
    \E i \in 0..(Len(text) - Len(needle)) :
        SubSeq(text, i + 1, i + Len(needle)) = needle

MatchesWhere(row, where) ==
    \/ where.kind = "empty"
    \/ /\ where.kind = "OR"
       /\ \E i \in 1..Len(where.conds) :
              Contains(row[where.conds[i].field], where.conds[i].contains)

RECURSIVE Filter(_, _)
Filter(table, where) ==
    IF table = <<>> THEN <<>>
    ELSE (IF MatchesWhere(table[1], where) THEN <<table[1]>> ELSE <<>>)
             \o Filter(Tail(table), where)

Drop(rows, n) == SubSeq(rows, n + 1, Len(rows))

Take(rows, n) == SubSeq(rows, 1, IF n < Len(rows) THEN n ELSE Len(rows))

\* link.findMany({where, skip, take}): an omitted skip is 0, an omitted take
\* is no limit
LinkFindMany(table, where, skip, take) ==
    LET matching == Filter(table, where)
        skipped == IF skip = Undefined THEN matching ELSE Drop(matching, skip.val)
    IN  IF take = Undefined THEN skipped ELSE Take(skipped, take.val)

RECURSIVE CommentsOfLink(_, _)
CommentsOfLink(table, linkId) ==
    IF table = <<>> THEN <<>>
    ELSE (IF table[1].linkId = linkId THEN <<table[1]>> ELSE <<>>)
             \o CommentsOfLink(Tail(table), linkId)

\* comment.findMany({where}): all rows, or those of one link
CommentFindMany(table, where) ==
    IF where = Undefined THEN table ELSE CommentsOfLink(table, where.linkId)

\* comment.findUnique({where: {id}}): the row or null; an id that is not a
\* number is refused
CommentFindUnique(table, id) ==
    IF id = NaN THEN Throw(InvalidArgument)
    ELSE IF \E i \in 1..Len(table) : table[i].id = id.val
         THEN Return(table[CHOOSE i \in 1..Len(table) : table[i].id = id.val])
         ELSE Return(Null)

\* what a resolver that returns the store's promise settles to
Settle(outcome) ==
    IF outcome.threw THEN Rejected(outcome.value) ELSE Resolved(outcome.value)

----------------------------------------------------------------------------
(* The resolvers of src/src/schema.ts.                                      *)

\* a settled request: the resolver, its arguments, what it settled to and
\* the number of store calls it made
Request(op, args, result, storeCalls) ==
    [op |-> op, args |-> args, result |-> result, storeCalls |-> storeCalls]

NoRequest == Request("none", Undefined, Undefined, 0)

\* an argument that is undefined, null or the empty string is falsy
Truthy(arg) == arg # Undefined /\ arg.val # <<>>

\* Query.info
info ==
    /\ resp' = Request("info", Undefined,
                       Resolved("This is the API of a Hackernews Clone"), 0)
    /\ UNCHANGED <<store, calls, input, output>>

\* the where clause without its url condition
FeedWhereDescriptionOnly(filterNeedle) ==
    IF Truthy(filterNeedle)
    THEN [kind |-> "OR",
          conds |-> << [field |-> "description", contains |-> filterNeedle.val] >>]
    ELSE [kind |-> "empty", conds |-> <<>>]

\* the where clause of Query.feed
FeedWhere(filterNeedle) ==
    IF Truthy(filterNeedle)
    THEN [kind |-> "OR",
          conds |-> << [field |-> "description", contains |-> filterNeedle.val],
                       [field |-> "url", contains |-> filterNeedle.val] >>]
    ELSE [kind |-> "empty", conds |-> <<>>]

\* args.take ?? 50: the upper bound taken for the default
FeedTakeDefaultMax(take) ==
    applyTakeConstraints(TakeMin, TakeMax,
                         IF take = Undefined THEN TakeMax ELSE take.val)

\* args.take ?? 30, checked against [1, 50]
FeedTake(take) ==
    applyTakeConstraints(TakeMin, TakeMax,
                         IF take = Undefined THEN TakeDefault ELSE take.val)

\* Query.feed without skip in its findMany call
FeedResultNoSkip(table, filterNeedle, skip, take, fault) ==
    LET where == FeedWhere(filterNeedle)
        checked == FeedTake(take)
        args == [filterNeedle |-> filterNeedle, skip |-> skip, take |-> take]
    IN  IF checked.threw
        THEN Request("feed", args, Rejected(checked.value), 0)
        ELSE Request("feed", args,
                     Settle(StoreOutcome(fault,
                         Return(LinkFindMany(table, where, Undefined,
                                             Some(checked.value))))),
                     1)

\* what Query.feed settles to on the Link table `table`
FeedResult(table, filterNeedle, skip, take, fault) ==
    LET where == FeedWhere(filterNeedle)
        checked == FeedTake(take)
        args == [filterNeedle |-> filterNeedle, skip |-> skip, take |-> take]
    IN  IF checked.threw
        THEN Request("feed", args, Rejected(checked.value), 0)
        ELSE Request("feed", args,
                     Settle(StoreOutcome(fault,
                         Return(LinkFindMany(table, where, skip,
                                             Some(checked.value))))),
                     1)

\* Query.feed
feed(filterNeedle, skip, take, fault) ==
    /\ resp' = FeedResult(links, filterNeedle, skip, take, fault)
    /\ UNCHANGED <<store, calls, input, output>>

\* Query.comment
comment(id, fault) ==
    /\ resp' = Request("comment", [id |-> id],
                       Settle(StoreOutcome(fault,
                           CommentFindUnique(comments, parseInt(id, 0)))),
                       1)
    /\ UNCHANGED <<store, calls, input, output>>

\* Query.allComments
allComments(fault) ==
    /\ resp' = Request("allComments", Undefined,
                       Settle(StoreOutcome(fault,
                           Return(CommentFindMany(comments, Undefined)))),
                       1)
    /\ UNCHANGED <<store, calls, input, output>>

\* Link.comments
Link_comments(parent, fault) ==
    /\ resp' = Request("Link.comments", [parent |-> parent],
                       Settle(StoreOutcome(fault,
                           Return(CommentFindMany(comments,
                                                  [linkId |-> parent.id])))),
                       1)
    /\ UNCHANGED <<store, calls, input, output>>

\* postLink as an upsert on the description: a link that has the description
\* gets the url, and a row is created only when there is none
postLinkUpsert(url, description, fault) ==
    LET args == [url |-> url, description |-> description]
        created == LinkCreate(links, nextLinkId, args)
        found == {i \in 1..Len(links) : links[i].description = description}
        at == CHOOSE i \in found : TRUE
    IN  /\ IF found = {}
           THEN /\ links' = created.table
                /\ nextLinkId' = created.next
                /\ resp' = Request("postLink", args, Settle(created.reply), 1)
           ELSE /\ links' = [links EXCEPT ![at].url = url]
                /\ nextLinkId' = nextLinkId
                /\ resp' = Request("postLink", args,
                                   Resolved([links[at] EXCEPT !.url = url]), 1)
        /\ UNCHANGED <<comments, nextCommentId, calls, input, output>>

\* Mutation.postLink
postLink(url, description, fault) ==
    LET created == LinkCreate(links, nextLinkId,
                              [description |-> description, url |-> url])
        args == [url |-> url, description |-> description]
    IN  /\ IF fault = NoFault
           THEN /\ links' = created.table
                /\ nextLinkId' = created.next
                /\ resp' = Request("postLink", args, Settle(created.reply), 1)
           ELSE /\ UNCHANGED <<links, nextLinkId>>
                /\ resp' = Request("postLink", args, Rejected(fault), 1)
        /\ UNCHANGED <<comments, nextCommentId, calls, input, output>>

\* Mutation.postCommentOnLink runs in three steps: up to the store call,
\* the store's insert, and the continuation after the await.  A call keeps
\* its arguments, the data of its store call, the store's reply and what it
\* settled to; attempts, created, linkIds and fault are history: the inserts
\* the call asked for, the rows they added, and the Link ids and the fault
\* the store had at the insert.

IdleCall ==
    [pc |-> "idle", args |-> Undefined, request |-> Undefined,
     reply |-> Undefined, result |-> Undefined,
     attempts |-> 0, created |-> 0, linkIds |-> {}, fault |-> NoFault]

ReferenceMessage(linkId) ==
    <<"Cannot post comment on non-existing link with id '">> \o linkId \o <<"'.">>

\* the data with the linkId argument for the body
CommentDataWrongBody(linkId, body) ==
    [linkId |-> parseInt(linkId, 0).val, body |-> linkId]

\* the data of the comment.create call
CommentData(linkId, body) == [linkId |-> parseInt(linkId, 0).val, body |-> body]

\* the call up to its first suspension
postCommentOnLink(c, linkId, body) ==
    /\ calls[c].pc = "idle"
    /\ calls' = [calls EXCEPT ![c] =
          IF parseIntSafe(linkId) = Null
          THEN [IdleCall EXCEPT
                   !.pc = "settled",
                   !.args = [linkId |-> linkId, body |-> body],
                   !.result = Rejected(GraphQLError(ReferenceMessage(linkId)))]
          ELSE [IdleCall EXCEPT
                   !.pc = "creating",
                   !.args = [linkId |-> linkId, body |-> body],
                   !.request = CommentData(linkId, body)]]
    /\ UNCHANGED <<store, resp, input, output>>

\* the store performs the comment.create of client c
comment_create(c, fault) ==
    LET done == CommentCreate(links, comments, nextCommentId, calls[c].request)
    IN  /\ calls[c].pc = "creating"
        /\ IF fault = NoFault
           THEN /\ comments' = done.table
                /\ nextCommentId' = done.next
                /\ calls' = [calls EXCEPT
                      ![c].pc = "replied",
                      ![c].reply = done.reply,
                      ![c].attempts = @ + 1,
                      ![c].created = @ + Len(done.table) - Len(comments),
                      ![c].linkIds = Ids(links),
                      ![c].fault = fault]
           ELSE /\ UNCHANGED <<comments, nextCommentId>>
                /\ calls' = [calls EXCEPT
                      ![c].pc = "replied",
                      ![c].reply = Throw(fault),
                      ![c].attempts = @ + 1,
                      ![c].linkIds = Ids(links),
                      ![c].fault = fault]
        /\ UNCHANGED <<links, nextLinkId, resp, input, output>>

\* the .catch handler without the test of the error code
CatchCreateAnyKnown(err, linkId) ==
    IF err.kind = "PrismaClientKnownRequestError"
    THEN Rejected(GraphQLError(ReferenceMessage(linkId)))
    ELSE Rejected(err)

\* the .catch handler of the comment.create promise
CatchCreate(err, linkId) ==
    IF err.kind = "PrismaClientKnownRequestError" /\ err.code = "P2003"
    THEN Rejected(GraphQLError(ReferenceMessage(linkId)))
    ELSE Rejected(err)

\* the continuation of the call once the store has replied
postCommentOnLink_resume(c) ==
    /\ calls[c].pc = "replied"
    /\ calls' = [calls EXCEPT
          ![c].pc = "settled",
          ![c].result = IF calls[c].reply.threw
                        THEN CatchCreate(calls[c].reply.value, calls[c].args.linkId)
                        ELSE Resolved(calls[c].reply.value)]
    /\ UNCHANGED <<store, resp, input, output>>

\* the execution engine hands the settled call to the client
postCommentOnLink_done(c) ==
    /\ calls[c].pc = "settled"
    /\ calls' = [calls EXCEPT ![c] = IdleCall]
    /\ UNCHANGED <<store, resp, input, output>>

\* the execution engine sends the response of a settled request
respond ==
    /\ resp # NoRequest
    /\ resp' = NoRequest
    /\ UNCHANGED <<store, calls, input, output>>

----------------------------------------------------------------------------
(* The earlier variants of Query.feed.                                      *)

\* the variant with a filter and no pagination
feed_filter(filterNeedle, fault) ==
    /\ resp' = Request("feed_filter", [filterNeedle |-> filterNeedle],
                       Settle(StoreOutcome(fault,
                           Return(LinkFindMany(links, FeedWhere(filterNeedle),
                                               Undefined, Undefined)))),
                       1)
    /\ UNCHANGED <<store, calls, input, output>>

\* the first variant: findMany() without arguments
feed_all(fault) ==
    /\ resp' = Request("feed_all", Undefined,
                       Settle(StoreOutcome(fault,
                           Return(LinkFindMany(links,
                                               [kind |-> "empty", conds |-> <<>>],
                                               Undefined, Undefined)))),
                       1)
    /\ UNCHANGED <<store, calls, input, output>>

----------------------------------------------------------------------------
(* Inputs.                                                                  *)

Faults == {NoFault} \cup StoreFaults

\* the linkId arguments of postCommentOnLink
LinkIdArgs == { <<"1">>, <<"0", "2">>, <<"7">>, <<"1", "a">>, <<>> }

\* the id arguments of comment
IdArgs == LinkIdArgs \cup { <<"-", "1">>, <<" ", "2">> }

Bodies == { <<"h", "i">>, <<>> }

\* the url and description every link of Spec and SpecApi is posted with
FixedUrl == <<"a">>
FixedDescription == <<"b">>

Urls == { <<"a">>, <<"b", "c">> }
Descriptions == { <<"b">>, <<"c", "a">> }

Needles == { Undefined, Some(<<>>), Some(<<"a">>), Some(<<"b", "c">>) }
Skips == { Undefined, Some(0), Some(1), Some(2), Some(40) }
Takes == { Undefined, Some(-1), Some(0), Some(1), Some(2), Some(50), Some(51) }

ParseAlphabet == { "0", "1", "9", "-", "+", " ", "a", "\n" }

\* arguments of parseIntSafe around 2^53, where doubles thin out
LongStrings ==
    { << "9", "0", "0", "7", "1", "9", "9", "2", "5", "4", "7", "4", "0", "9", "9", "2" >>,
      << "9", "0", "0", "7", "1", "9", "9", "2", "5", "4", "7", "4", "0", "9", "9", "3" >>,
      << "0", "9", "0", "0", "7", "1", "9", "9", "2", "5", "4", "7", "4", "0", "9", "9", "5" >>,
      << "1", "8", "0", "1", "4", "3", "9", "8", "5", "0", "9", "4", "8", "1", "9", "8", "7" >>,
      << "1", "2", "3", "4", "5", "6", "7", "8", "9", "0" >>,
      << "9", "0", "0", "7", "1", "9", "9", "2", "5", "4", "7", "4", "0", "9", "9", "3", "a" >> }

RECURSIVE Strings(_)
Strings(n) ==
    IF n = 0 THEN { <<>> }
    ELSE Strings(n - 1) \cup
         { Append(s, ch) : s \in { t \in Strings(n - 1) : Len(t) = n - 1 },
                           ch \in ParseAlphabet }

----------------------------------------------------------------------------
(* Spec: postLink and the postCommentOnLink calls of two clients,           *)
(* interleaved at their store calls.                                        *)

Init ==
    /\ links = <<>>
    /\ comments = <<>>
    /\ nextLinkId = 1
    /\ nextCommentId = 1
    /\ calls = [c \in Clients |-> IdleCall]
    /\ resp = NoRequest
    /\ input = <<>>
    /\ output = Undefined

\* the Comment table has room for the insert of client c
RoomForComment(c, fault) ==
    IF fault = NoFault /\ calls[c].pc = "creating"
    THEN ForeignKeyHolds(links, calls[c].request.linkId)
             => Len(comments) < MaxComments
    ELSE TRUE

PostLinkStep ==
    \E fault \in Faults :
        /\ resp = NoRequest
        /\ Len(links) < MaxLinks
        /\ postLink(FixedUrl, FixedDescription, fault)

CallStep(c) ==
    \E linkId \in LinkIdArgs, body \in Bodies : postCommentOnLink(c, linkId, body)

CreateStep(c) ==
    \E fault \in Faults : RoomForComment(c, fault) /\ comment_create(c, fault)

Next ==
    \/ PostLinkStep
    \/ respond
    \/ \E c \in Clients :
          \/ CallStep(c)
          \/ CreateStep(c)
          \/ postCommentOnLink_resume(c)
          \/ postCommentOnLink_done(c)

Spec == Init /\ [][Next]_vars

----------------------------------------------------------------------------
(* SpecApi: every operation of the API, one client at a time.               *)

ApiClient == "c1"

ApiPostLinkStep ==
    \E url \in Urls, fault \in Faults :
        /\ resp = NoRequest
        /\ Len(links) < MaxApiLinks
        /\ postLink(url, FixedDescription, fault)

ApiCallStep ==
    \E linkId \in LinkIdArgs : postCommentOnLink(ApiClient, linkId, <<"h", "i">>)

InfoStep == resp = NoRequest /\ info

ApiFeedStep ==
    \E filterNeedle \in {Undefined, Some(<<"a">>)}, take \in {Undefined, Some(0)},
       fault \in Faults :
        resp = NoRequest /\ feed(filterNeedle, Undefined, take, fault)

CommentStep ==
    \E id \in IdArgs, fault \in Faults : resp = NoRequest /\ comment(id, fault)

AllCommentsStep == \E fault \in Faults : resp = NoRequest /\ allComments(fault)

\* the parent of Link.comments is a Link row the store returned
LinkCommentsStep ==
    \E i \in 1..Len(links), fault \in Faults :
        resp = NoRequest /\ Link_comments(links[i], fault)

NextApi ==
    \/ ApiPostLinkStep
    \/ ApiCallStep
    \/ CreateStep(ApiClient)
    \/ postCommentOnLink_resume(ApiClient)
    \/ postCommentOnLink_done(ApiClient)
    \/ InfoStep
    \/ ApiFeedStep
    \/ CommentStep
    \/ AllCommentsStep
    \/ LinkCommentsStep
    \/ respond

SpecApi == Init /\ [][NextApi]_vars

----------------------------------------------------------------------------
(* SpecFeed: the feed of a Link table filled by postLink.                   *)

PostVariedStep ==
    \E url \in Urls, description \in Descriptions, fault \in Faults :
        /\ resp = NoRequest
        /\ Len(links) < MaxVaried
        /\ postLink(url, description, fault)

PostFixedStep ==
    \E fault \in Faults :
        /\ resp = NoRequest
        /\ MaxVaried <= Len(links)
        /\ Len(links) < MaxFeedLinks
        /\ postLink(FixedUrl, FixedDescription, fault)

FeedStep ==
    \E filterNeedle \in Needles, skip \in Skips, take \in Takes, fault \in Faults :
        resp = NoRequest /\ feed(filterNeedle, skip, take, fault)

FeedFilterStep ==
    \E filterNeedle \in Needles, fault \in Faults :
        resp = NoRequest /\ feed_filter(filterNeedle, fault)

FeedAllStep == \E fault \in Faults : resp = NoRequest /\ feed_all(fault)

NextFeed ==
    \/ PostVariedStep
    \/ PostFixedStep
    \/ FeedStep
    \/ FeedFilterStep
    \/ FeedAllStep
    \/ respond

SpecFeed == Init /\ [][NextFeed]_vars

----------------------------------------------------------------------------
(* SpecParse: parseIntSafe applied to every string of up to MaxStrLen       *)
(* characters of ParseAlphabet and to the strings of LongStrings.           *)

InitParse ==
    /\ links = <<>>
    /\ comments = <<>>
    /\ nextLinkId = 1
    /\ nextCommentId = 1
    /\ calls = [c \in Clients |-> IdleCall]
    /\ resp = NoRequest
    /\ input \in Strings(MaxStrLen) \cup LongStrings
    /\ output = Undefined

Parse ==
    /\ output = Undefined
    /\ output' = parseIntSafe(input)
    /\ UNCHANGED <<store, calls, resp, input>>

NextParse == Parse

SpecParse == InitParse /\ [][NextParse]_vars

----------------------------------------------------------------------------
(* What the claims are stated with.                                         *)

\* the string is one or more decimal digits
IsDecimalString(str) ==
    /\ str # <<>>
    /\ \A i \in 1..Len(str) : \E d \in 0..9 : str[i] = ToString(d)

DecimalDigit(ch) == CHOOSE d \in 0..9 : ch = ToString(d)

RECURSIVE PowerOfTen(_)
PowerOfTen(n) == IF n = 0 THEN 1 ELSE 10 * PowerOfTen(n - 1)

\* the integer a decimal string denotes
RECURSIVE DecimalValue(_)
DecimalValue(str) ==
    IF str = <<>> THEN 0
    ELSE DecimalDigit(str[1]) * PowerOfTen(Len(str) - 1) + DecimalValue(Tail(str))

\* the reference error on the raw linkId argument
IsReferenceError(result, linkId) ==
    /\ result.state = "rejected"
    /\ result.value.kind = "GraphQLError"
    /\ Len(result.value.message) = Len(linkId) + 2
    /\ result.value.message[1] = "Cannot post comment on non-existing link with id '"
    /\ SubSeq(result.value.message, 2, Len(linkId) + 1) = linkId
    /\ result.value.message[Len(linkId) + 2] = "'."

\* the call of client c has settled
Settled(c) == calls[c].pc = "settled"

\* the store performed the insert of client c's call without a fault
Inserted(c) == calls[c].attempts >= 1 /\ calls[c].fault = NoFault

\* (C1) Every stored Comment's linkId is the id of a stored Link, in every
\* state of every interleaving of postLink and postCommentOnLink calls.
C1_CommentsReferenceLinks ==
    \A i \in 1..Len(comments) : \E j \in 1..Len(links) : comments[i].linkId = links[j].id

\* two calls have met the store: one stored its comment, the other was refused
C1_Witness ==
    \E c, d \in Clients :
        /\ c # d
        /\ calls[c].pc = "replied" /\ ~calls[c].reply.threw
        /\ calls[d].pc = "replied" /\ calls[d].reply = Throw(ForeignKeyViolation)
        /\ Len(comments) >= 1

\* (C2) A postCommentOnLink whose linkId references a Link that exists when
\* the store performs the insert adds exactly one Comment row, with linkId the
\* parsed integer and body the argument, and returns that row, whose id no
\* other Comment row has.
C2_CommentCreated ==
    \A c \in Clients :
        ( /\ Settled(c)
          /\ IsDecimalString(calls[c].args.linkId)
          /\ Inserted(c)
          /\ DecimalValue(calls[c].args.linkId) \in calls[c].linkIds )
        => /\ calls[c].result.state = "fulfilled"
           /\ calls[c].result.value.linkId = DecimalValue(calls[c].args.linkId)
           /\ calls[c].result.value.body = calls[c].args.body
           /\ calls[c].created = 1
           /\ calls[c].attempts = 1
           /\ \E i \in 1..Len(comments) :
                 /\ comments[i] = calls[c].result.value
                 /\ \A j \in 1..Len(comments) :
                        comments[j].id = comments[i].id => j = i

\* a call has returned the second Comment row of the table
C2_Witness ==
    \E c \in Clients :
        /\ Settled(c)
        /\ calls[c].result.state = "fulfilled"
        /\ Len(comments) = 2
        /\ calls[c].result.value = comments[2]
        /\ calls[c].args.body = <<"h", "i">>

\* (C3) A postCommentOnLink whose linkId is not a string of decimal digits,
\* or names a Link that does not exist when the store performs the insert,
\* creates no Comment row and fails with the reference error on the raw
\* linkId, the same in both cases; the unparseable linkId never reaches the
\* store.
C3_ReferenceError ==
    \A c \in Clients :
        ( /\ Settled(c)
          /\ \/ ~IsDecimalString(calls[c].args.linkId)
             \/ /\ Inserted(c)
                /\ DecimalValue(calls[c].args.linkId) \notin calls[c].linkIds )
        => /\ IsReferenceError(calls[c].result, calls[c].args.linkId)
           /\ calls[c].created = 0
           /\ (~IsDecimalString(calls[c].args.linkId) => calls[c].attempts = 0)

\* one call failed on an unparseable linkId, another on a missing link
C3_Witness ==
    \E c, d \in Clients :
        /\ Settled(c) /\ calls[c].args.linkId = <<"1", "a">>
        /\ Settled(d) /\ calls[d].args.linkId = <<"7">> /\ Inserted(d)
        /\ calls[d].result.state = "rejected"

\* (C4) When the store rejects the insert with an error other than the
\* foreign-key violation, postCommentOnLink fails with exactly that error,
\* after one insert attempt, and no Comment row is created.
C4_StoreErrorPropagates ==
    \A c \in Clients :
        /\ calls[c].attempts <= 1
        /\ (Settled(c) /\ calls[c].fault # NoFault)
           => /\ calls[c].result = Rejected(calls[c].fault)
              /\ calls[c].fault # ForeignKeyViolation
              /\ calls[c].attempts = 1
              /\ calls[c].created = 0

\* a call on an existing link failed with the pool timeout
C4_Witness ==
    \E c \in Clients :
        /\ Settled(c)
        /\ calls[c].fault = PoolTimeout
        /\ calls[c].args.linkId = <<"1">>
        /\ Len(links) = 1

\* the needle occurs in the text
InText(needle, text) ==
    \E i \in 1..(Len(text) + 1), j \in 0..Len(text) : SubSeq(text, i, j) = needle

\* the link matches the filter: no filter, or the needle in either field
MatchesNeedle(link, filterNeedle) ==
    \/ filterNeedle = Undefined
    \/ InText(filterNeedle.val, link.description)
    \/ InText(filterNeedle.val, link.url)

\* the number of matching links among the first p rows of the Link table
Rank(p, filterNeedle) ==
    Cardinality({q \in 1..p : MatchesNeedle(links[q], filterNeedle)})

\* the matching links, in the order of the Link table
MatchingLinks(filterNeedle) ==
    SelectSeq(links, LAMBDA link : MatchesNeedle(link, filterNeedle))

SkipOf(skip) == IF skip = Undefined THEN 0 ELSE skip.val

TakeOf(take) == IF take = Undefined THEN 30 ELSE take.val

\* the number of links a page holds: min(take, matches - skip), or none
PageLength(matches, skip, take) ==
    LET left == matches - SkipOf(skip)
    IN  IF left <= 0 THEN 0 ELSE IF TakeOf(take) < left THEN TakeOf(take) ELSE left

\* the page of the feed: the matching links after the first skip ones
Page(filterNeedle, skip, take) ==
    LET matching == MatchingLinks(filterNeedle)
    IN  [n \in 1..PageLength(Len(matching), skip, take) |-> matching[SkipOf(skip) + n]]

FeedAnswered == resp.op = "feed"

TakeInRange(take) == take = Undefined \/ (1 <= take.val /\ take.val <= 50)

Fulfilled == resp.result.state = "fulfilled"

\* (C5) feed with a take below 1 or above 50 fails with a validation error
\* whose message holds the value and the bounds 1 and 50, without a call to
\* the store, whatever filterNeedle and skip are.
C5_TakeOutOfRange ==
    (FeedAnswered /\ ~TakeInRange(resp.args.take))
    => /\ resp.result.state = "rejected"
       /\ resp.result.value.kind = "GraphQLError"
       /\ \A part \in {ToString(resp.args.take.val), "1", "50"} :
              \E i \in 1..Len(resp.result.value.message) :
                  resp.result.value.message[i] = part
       /\ resp.storeCalls = 0

\* feed(filterNeedle: "a", skip: 1, take: 0) on a table with a link
C5_Witness ==
    /\ FeedAnswered
    /\ resp.args = [filterNeedle |-> Some(<<"a">>), skip |-> Some(1), take |-> Some(0)]
    /\ Len(links) >= 1

\* (C6) For a take in [1, 50] (30 when absent) and a skip >= 0, feed returns
\* the matching links in insertion order, from the one after the first skip
\* matches on, min(take, matches - skip) of them and so at most take; it
\* fails only with the store's own error.
C6_FeedPage ==
    (FeedAnswered /\ TakeInRange(resp.args.take))
    => /\ resp.storeCalls = 1
       /\ IF Fulfilled
          THEN /\ resp.result.value =
                      Page(resp.args.filterNeedle, resp.args.skip, resp.args.take)
               /\ Len(resp.result.value) <= TakeOf(resp.args.take)
          ELSE resp.result.value \in StoreFaults

\* a page of two links that starts after the first match, on a table whose
\* first link does not match
C6_Witness ==
    /\ FeedAnswered /\ Fulfilled
    /\ resp.args = [filterNeedle |-> Some(<<"a">>), skip |-> Some(1), take |-> Some(2)]
    /\ Len(resp.result.value) = 2
    /\ ~MatchesNeedle(links[1], resp.args.filterNeedle)

NoArguments == [filterNeedle |-> Undefined, skip |-> Undefined, take |-> Undefined]

\* (C7, as claimed) feed without arguments returns all links of the store.
C7_FeedReturnsAll ==
    (FeedAnswered /\ resp.args = NoArguments /\ Fulfilled)
    => resp.result.value = links

\* (C7) feed without arguments returns the first 30 links of the store in
\* insertion order, which are all its links when it holds at most 30; the
\* variants of feed without pagination return all links when no filterNeedle
\* is given.
C7_FeedReturnsFirstThirty ==
    /\ (FeedAnswered /\ resp.args = NoArguments /\ Fulfilled)
       => resp.result.value =
              SubSeq(links, 1, IF Len(links) < 30 THEN Len(links) ELSE 30)
    /\ (resp.op = "feed_filter" /\ resp.args.filterNeedle = Undefined /\ Fulfilled)
       => resp.result.value = links
    /\ (resp.op = "feed_all" /\ Fulfilled)
       => resp.result.value = links

\* feed() on a table of more than 30 links
C7_Witness ==
    /\ FeedAnswered /\ resp.args = NoArguments /\ Fulfilled
    /\ Len(links) > 30
    /\ Len(resp.result.value) = 30

\* (C8) feed with a filterNeedle returns links whose description or url
\* contains the needle, each once, and leaves out no matching link of its
\* skip/take window; the variant without pagination returns every matching
\* link.
C8_FilterIsUnion ==
    (resp.op \in {"feed", "feed_filter"} /\ resp.args.filterNeedle # Undefined /\ Fulfilled)
    => LET out == resp.result.value
           needle == resp.args.filterNeedle
           first == IF FeedAnswered THEN SkipOf(resp.args.skip) + 1 ELSE 1
           last == IF FeedAnswered
                   THEN SkipOf(resp.args.skip) + TakeOf(resp.args.take)
                   ELSE Len(links)
       IN  /\ \A i \in 1..Len(out) :
                  /\ \E p \in 1..Len(links) : links[p] = out[i]
                  /\ \/ InText(needle.val, out[i].description)
                     \/ InText(needle.val, out[i].url)
           /\ \A i, j \in 1..Len(out) : out[i].id = out[j].id => i = j
           /\ \A p \in 1..Len(links) :
                  ( /\ MatchesNeedle(links[p], needle)
                    /\ first <= Rank(p, needle)
                    /\ Rank(p, needle) <= last )
                  => \E i \in 1..Len(out) : out[i] = links[p]

\* the feed of a needle that one link has in both fields, one in its url
\* alone and one in neither
C8_Witness ==
    /\ FeedAnswered /\ Fulfilled
    /\ resp.args = [filterNeedle |-> Some(<<"a">>), skip |-> Undefined, take |-> Undefined]
    /\ Len(links) >= 3
    /\ links[1].url = <<"a">> /\ links[1].description = <<"c", "a">>
    /\ links[2].url = <<"b", "c">> /\ links[2].description = <<"b">>
    /\ Len(resp.result.value) = Len(links) - 1

\* the digits of a decimal string from its first digit that is not 0
Canonical(str) ==
    LET first == {i \in 1..Len(str) : str[i] # "0"}
    IN  IF first = {} THEN <<"0">>
        ELSE SubSeq(str, CHOOSE i \in first : \A j \in first : i <= j, Len(str))

\* the number is the integer the decimal string denotes
Denotes(number, str) ==
    /\ number.kind = "number"
    /\ IF Len(Canonical(str)) <= 9
       THEN number = Num(DecimalValue(Canonical(str)))
       ELSE number = BigNum(1, Canonical(str))

\* the decimal string denotes at most 2^53 = 9007199254740992
AtMostTwoTo53(str) ==
    LET digits == Canonical(str)
        limit == <<9, 0, 0, 7, 1, 9, 9, 2, 5, 4, 7, 4, 0, 9, 9, 2>>
    IN  \/ Len(digits) < Len(limit)
        \/ /\ Len(digits) = Len(limit)
           /\ \A i \in 1..Len(limit) :
                  DecimalDigit(digits[i]) > limit[i]
                  => \E j \in 1..(i - 1) : DecimalDigit(digits[j]) < limit[j]

\* (C9, as claimed) parseIntSafe returns the integer a string of one or more
\* decimal digits denotes, and null for every other string.
C9_ParseIntSafe ==
    output # Undefined
    => IF IsDecimalString(input) THEN Denotes(output, input) ELSE output = Null

\* (C9) parseIntSafe returns null for every string that is not one or more
\* decimal digits, and a number for a string of decimal digits: the integer
\* the string denotes when that is at most 2^53.
C9_ParseIntSafeUpTo53Bits ==
    output # Undefined
    => IF IsDecimalString(input)
       THEN /\ output.kind = "number"
            /\ AtMostTwoTo53(input) => Denotes(output, input)
       ELSE output = Null

\* 2^53 + 1 has been parsed, to 2^53
C9_Witness ==
    /\ input = << "9", "0", "0", "7", "1", "9", "9", "2", "5", "4", "7", "4", "0", "9", "9", "3" >>
    /\ output = BigNum(1, TwoTo53)

IsPrefix(rows, more) ==
    Len(rows) <= Len(more) /\ SubSeq(more, 1, Len(rows)) = rows

UniqueIds(table) == \A i, j \in 1..Len(table) : table[i].id = table[j].id => i = j

QueryOps == {"info", "feed", "comment", "allComments", "Link.comments"}

\* (C10) No step of any operation updates or deletes a row: the Link and
\* Comment tables only grow at their end, ids stay unique, and a query
\* leaves the store unchanged.
C10_RowsOnlyAdded ==
    [][ /\ IsPrefix(links, links')
        /\ IsPrefix(comments, comments')
        /\ UniqueIds(links')
        /\ UniqueIds(comments')
        /\ (resp' # resp /\ resp'.op \in QueryOps) => UNCHANGED store ]_vars

\* Link.comments answered on a store of two links and two comments
C10_Witness ==
    /\ resp.op = "Link.comments"
    /\ Len(links) = 2
    /\ Len(comments) = 2

============================================================================
